---- MODULE Spec2Model ----
(***************************************************************************)
(* A model of src/imitation/scripts/analyze.py: the gathering of Sacred    *)
(* run directories (_gather_sacred_dicts), the column functions            *)
(* (_get_algo_name, _return_summaries, _make_return_summary), the column   *)
(* registry and its verbosity tiers (_get_table_entry_fns_subset) and the  *)
(* table built by analyze_imitation.                                       *)
(*                                                                         *)
(* Python values are tagged records.  A string is a sequence of            *)
(* one-character strings, so that upper-casing, formatting, concatenation  *)
(* and ordering are computed character by character.  A float is a decimal *)
(* m * 10^e.  A function that raises returns Raise(<exception name>).      *)
(***************************************************************************)
EXTENDS Integers, Sequences, FiniteSets, TLC

VARIABLES
    pc,                     \* position in the command being run
    source_dirs,            \* the Sacred directories found, in discovery order
    run_name,               \* captured argument: None or a string
    env_name,               \* captured argument: None or a string
    skip_failed_runs,       \* captured argument: a boolean
    table_verbosity,        \* argument of analyze_imitation
    n_scanned,              \* how many of source_dirs the load loop has visited
    sacred_dicts,           \* the local list sacred_dicts of _gather_sacred_dicts
    warned,                 \* the directories a RuntimeWarning was emitted for
    table_entry_fns_subset, \* the local of analyze_imitation (column names)
    rows,                   \* the local list rows of analyze_imitation
    df,                     \* the DataFrame returned (a sequence of rows)
    exc,                    \* the exception that ended the command, or None
    sd,                     \* the argument of a column function called alone
    ret                     \* what the calls of that column function returned

vars == <<pc, source_dirs, run_name, env_name, skip_failed_runs, table_verbosity,
          n_scanned, sacred_dicts, warned, table_entry_fns_subset, rows, df, exc,
          sd, ret>>

(***************************************************************************)
(* Python values                                                           *)
(***************************************************************************)
None == [t |-> "none"]
StrV(s) == [t |-> "str", s |-> s]
IntV(n) == [t |-> "int", n |-> n]
FloatV(m, e) == [t |-> "float", m |-> m, e |-> e]
QuotV(a, b) == [t |-> "float", num |-> a, den |-> b]
DictV(f) == [t |-> "dict", m |-> f]
Raise(e) == [t |-> "raise", exc |-> e]
IsRaise(v) == v.t = "raise"

(***************************************************************************)
(* Characters and strings                                                  *)
(***************************************************************************)
Lower == <<"a","b","c","d","e","f","g","h","i","j","k","l","m",
           "n","o","p","q","r","s","t","u","v","w","x","y","z">>
Upper == <<"A","B","C","D","E","F","G","H","I","J","K","L","M",
           "N","O","P","Q","R","S","T","U","V","W","X","Y","Z">>
DigitChars == <<"0","1","2","3","4","5","6","7","8","9">>
\* the characters of the model in code-point order
CodePointOrder == <<" ","(",")","+","-",".">> \o DigitChars \o <<"=","?">>
                  \o Upper \o <<"_">> \o Lower \o <<"±">>
Ord(c) == CHOOSE i \in 1..Len(CodePointOrder) : CodePointOrder[i] = c

UpperChar(c) ==
    IF \E i \in 1..Len(Lower) : Lower[i] = c
    THEN Upper[CHOOSE i \in 1..Len(Lower) : Lower[i] = c]
    ELSE c
str_upper(s) == [i \in 1..Len(s) |-> UpperChar(s[i])]

\* s < t in Python's string order (code points, a proper prefix first)
StrLess(s, t) ==
    \E i \in 1..Len(t) :
        /\ \A j \in 1..(i - 1) : j <= Len(s) /\ s[j] = t[j]
        /\ \/ i = Len(s) + 1
           \/ i <= Len(s) /\ Ord(s[i]) < Ord(t[i])

\* t occurs in s (Python's  t in s)
Contains(s, t) ==
    \E i \in 0..(Len(s) - Len(t)) : \A j \in 1..Len(t) : s[i + j] = t[j]

(***************************************************************************)
(* Numbers as text: str() of an int and the format type g                  *)
(***************************************************************************)
Abs(n) == IF n < 0 THEN -n ELSE n

RECURSIVE Pow10(_)
Pow10(k) == IF k <= 0 THEN 1 ELSE 10 * Pow10(k - 1)

RECURSIVE NatDigits(_)
\* the decimal digits of a natural number, most significant first
NatDigits(n) ==
    IF n < 10 THEN <<DigitChars[n + 1]>>
    ELSE Append(NatDigits(n \div 10), DigitChars[(n % 10) + 1])

IntText(n) == IF n < 0 THEN <<"-">> \o NatDigits(-n) ELSE NatDigits(n)

RECURSIVE StripZeros(_)
\* a digit string without its trailing zeros, keeping its first digit
StripZeros(ds) ==
    IF Len(ds) > 1 /\ ds[Len(ds)] = "0"
    THEN StripZeros(SubSeq(ds, 1, Len(ds) - 1))
    ELSE ds

Zeros(k) == [i \in 1..k |-> "0"]
PadLeft(s, width) == [i \in 1..(width - Len(s)) |-> " "] \o s

\* q0 * 10^k + r rounded to a multiple of 10^k, half = 5 * 10^(k-1): half to even
RoundedUp(q0, r, half) ==
    IF r > half \/ (r = half /\ q0 % 2 = 1) THEN q0 + 1 ELSE q0

\* a without its last drop digits, rounded
RoundHalfEven(a, drop) ==
    IF drop <= 0 THEN a
    ELSE RoundedUp(a \div Pow10(drop), a % Pow10(drop), 5 * Pow10(drop - 1))

\* fixed notation of the digits sig, the first one worth 10^E
FixedText(sig, E) ==
    IF E >= 0
    THEN IF Len(sig) <= E + 1
         THEN sig \o Zeros(E + 1 - Len(sig))
         ELSE SubSeq(sig, 1, E + 1) \o <<".">> \o SubSeq(sig, E + 2, Len(sig))
    ELSE <<"0", ".">> \o Zeros(-E - 1) \o sig

\* scientific notation of the same: d.ddd, e, a sign, two exponent digits at least
SciText(sig, E) ==
    <<sig[1]>>
    \o (IF Len(sig) > 1 THEN <<".">> \o SubSeq(sig, 2, Len(sig)) ELSE <<>>)
    \o <<"e", IF E < 0 THEN "-" ELSE "+">>
    \o (IF Abs(E) < 10 THEN <<"0">> ELSE <<>>) \o NatDigits(Abs(E))

GText(sig, E, prec) ==
    IF -4 <= E /\ E < prec THEN FixedText(sig, E) ELSE SciText(sig, E)

\* q1: the rounded digits, one more than prec when the rounding carried;
\* E0: the decimal exponent of the leading digit before rounding
FormatDigits(q1, E0, prec) ==
    GText(StripZeros(NatDigits(q1)), IF q1 = Pow10(prec) THEN E0 + 1 ELSE E0, prec)

FormatAbs(a, nd, e, prec) ==
    FormatDigits(RoundHalfEven(a, nd - prec), nd - 1 + e, prec)

\* format(m * 10^e, "<width>.<prec>g"): round to prec significant digits (half
\* to even), fixed notation when the decimal exponent E of the leading digit
\* has -4 <= E < prec and scientific otherwise, trailing zeros removed, then
\* right-aligned in width.
FormatG(m, e, width, prec) ==
    IF m = 0 THEN PadLeft(<<"0">>, width)
    ELSE PadLeft((IF m < 0 THEN <<"-">> ELSE <<>>)
                 \o FormatAbs(Abs(m), Len(NatDigits(Abs(m))), e, prec), width)

\* str(v) for the values a run document holds
str(v) ==
    CASE v.t = "none" -> <<"N","o","n","e">>
      [] v.t = "str" -> v.s
      [] v.t = "int" -> IntText(v.n)

(***************************************************************************)
(* Run documents.  A SacredDicts is [sacred_dir, config, run], config and  *)
(* run being the parsed config.json and run.json (dicts).                  *)
(***************************************************************************)
\* dict.get(key): None when the key is missing
dict_get(d, key) == IF key \in DOMAIN d.m THEN d.m[key] ELSE None

RECURSIVE dict_get_nested(_, _)
\* imitation.util.sacred.dict_get_nested(d, "k1.k2"), keys being <<"k1", "k2">>:
\* walks the keys and returns None as soon as one is missing
dict_get_nested(d, keys) ==
    IF keys = <<>> THEN d
    ELSE IF d.t = "dict" /\ Head(keys) \in DOMAIN d.m
         THEN dict_get_nested(d.m[Head(keys)], Tail(keys))
         ELSE None

\* d[key]: KeyError when the key is missing
dict_item(d, key) == IF key \in DOMAIN d.m THEN d.m[key] ELSE Raise("KeyError")

train_adversarial ==
    <<"t","r","a","i","n","_","a","d","v","e","r","s","a","r","i","a","l">>
train_bc == <<"t","r","a","i","n","_","b","c">>
train_dagger == <<"t","r","a","i","n","_","d","a","g","g","e","r">>
FAILED == <<"F","A","I","L","E","D">>
UnknownPrefix == <<"?","?","e","x","p","_","c","o","m","m","a","n","d","=">>

_get_exp_command(s) == StrV(str(dict_get(s.run, "command")))

\* the same without the upper-casing of the algorithm
_get_algo_name_as_written(s) ==
    LET exp_command == _get_exp_command(s) IN
    IF exp_command = StrV(train_adversarial)
    THEN dict_get_nested(s.config, <<"algorithm">>)
    ELSE IF exp_command = StrV(train_bc) THEN StrV(<<"B","C">>)
    ELSE IF exp_command = StrV(train_dagger)
         THEN StrV(<<"D","A","g","g","e","r">>)
    ELSE StrV(UnknownPrefix \o exp_command.s)

_get_algo_name(s) ==
    LET exp_command == _get_exp_command(s) IN
    IF exp_command = StrV(train_adversarial)
    THEN LET algo == dict_get_nested(s.config, <<"algorithm">>) IN
         IF algo # None THEN StrV(str_upper(algo.s)) ELSE algo
    ELSE IF exp_command = StrV(train_bc) THEN StrV(<<"B","C">>)
    ELSE IF exp_command = StrV(train_dagger)
         THEN StrV(<<"D","A","g","g","e","r">>)
    ELSE StrV(UnknownPrefix \o exp_command.s)

FormatWidth == 3
DefaultPrecision == 6

\* "{:3g}".format(v): width 3, and no precision given, so the default one
Format3g(v) ==
    IF v.t = "int" THEN FormatG(v.n, 0, FormatWidth, DefaultPrecision)
    ELSE FormatG(v.m, v.e, FormatWidth, DefaultPrecision)

_make_return_summary(stats, prefix) ==
    LET mean == dict_item(stats, prefix \o "return_mean")
        std == dict_item(stats, prefix \o "return_std")
        n == dict_item(stats, "n_traj")
    IN  IF IsRaise(mean) THEN mean
        ELSE IF IsRaise(std) THEN std
        ELSE IF IsRaise(n) THEN n
        ELSE StrV(Format3g(mean) \o <<" ","±"," ">> \o Format3g(std)
                  \o <<" ","(","n","=">> \o str(n) \o <<")">>)

\* a / b of two floats
IsZero(v) == IF v.t = "int" THEN v.n = 0 ELSE v.m = 0
TrueDiv(a, b) == IF IsZero(b) THEN Raise("ZeroDivisionError") ELSE QuotV(a, b)

\* the same with the ratio upside down: expert mean over imitation mean
_return_summaries_inverted(s) ==
    LET imit_stats == dict_get_nested(s.run, <<"result", "imit_stats">>)
        expert_stats == dict_get_nested(s.run, <<"result", "expert_stats">>)
        expert_return_summary ==
            IF expert_stats # None THEN _make_return_summary(expert_stats, "")
            ELSE None
        imit_return_summary ==
            IF imit_stats # None THEN _make_return_summary(imit_stats, "monitor_")
            ELSE None
        imit_mean == dict_item(imit_stats, "monitor_return_mean")
        expert_mean == dict_item(expert_stats, "return_mean")
        imit_expert_ratio ==
            IF imit_stats # None /\ expert_stats # None
            THEN IF IsRaise(imit_mean) THEN imit_mean
                 ELSE IF IsRaise(expert_mean) THEN expert_mean
                 ELSE TrueDiv(expert_mean, imit_mean)
            ELSE None
    IN  IF IsRaise(expert_return_summary) THEN expert_return_summary
        ELSE IF IsRaise(imit_return_summary) THEN imit_return_summary
        ELSE IF IsRaise(imit_expert_ratio) THEN imit_expert_ratio
        ELSE DictV([expert_stats |-> expert_stats,
                    imit_stats |-> imit_stats,
                    expert_return_summary |-> expert_return_summary,
                    imit_return_summary |-> imit_return_summary,
                    imit_expert_ratio |-> imit_expert_ratio])

_return_summaries(s) ==
    LET imit_stats == dict_get_nested(s.run, <<"result", "imit_stats">>)
        expert_stats == dict_get_nested(s.run, <<"result", "expert_stats">>)
        expert_return_summary ==
            IF expert_stats # None THEN _make_return_summary(expert_stats, "")
            ELSE None
        imit_return_summary ==
            IF imit_stats # None THEN _make_return_summary(imit_stats, "monitor_")
            ELSE None
        imit_mean == dict_item(imit_stats, "monitor_return_mean")
        expert_mean == dict_item(expert_stats, "return_mean")
        imit_expert_ratio ==
            IF imit_stats # None /\ expert_stats # None
            THEN IF IsRaise(imit_mean) THEN imit_mean
                 ELSE IF IsRaise(expert_mean) THEN expert_mean
                 ELSE TrueDiv(imit_mean, expert_mean)
            ELSE None
    IN  IF IsRaise(expert_return_summary) THEN expert_return_summary
        ELSE IF IsRaise(imit_return_summary) THEN imit_return_summary
        ELSE IF IsRaise(imit_expert_ratio) THEN imit_expert_ratio
        ELSE DictV([expert_stats |-> expert_stats,
                    imit_stats |-> imit_stats,
                    expert_return_summary |-> expert_return_summary,
                    imit_return_summary |-> imit_return_summary,
                    imit_expert_ratio |-> imit_expert_ratio])

(***************************************************************************)
(* The column registry and its verbosity tiers                             *)
(***************************************************************************)
\* the keys of the OrderedDict table_entry_fns, in its order
table_entry_fns ==
    <<"status", "exp_command", "algo", "env_name", "n_expert_demos", "run_name",
      "expert_return_summary", "imit_return_summary", "imit_expert_ratio">>

\* table_entry_fns[col_name](s)
make_entry_fn(col_name, s) ==
    CASE col_name = "status" -> dict_get_nested(s.run, <<"status">>)
      [] col_name = "exp_command" -> _get_exp_command(s)
      [] col_name = "algo" -> _get_algo_name(s)
      [] col_name = "env_name" -> dict_get_nested(s.config, <<"env_name">>)
      [] col_name = "n_expert_demos" ->
             dict_get_nested(s.config, <<"n_expert_demos">>)
      [] col_name = "run_name" ->
             dict_get_nested(s.run, <<"experiment", "name">>)
      [] col_name \in {"expert_return_summary", "imit_return_summary",
                       "imit_expert_ratio"} ->
             LET r == _return_summaries(s) IN
             IF IsRaise(r) THEN r ELSE r.m[col_name]

verbosity_0 == {"algo", "env_name", "expert_return_summary", "imit_return_summary"}
verbosity_1 == verbosity_0 \cup {"n_expert_demos"}
\* the last tier built on the first one instead of the one before it
verbosity_2_on_first ==
    verbosity_0 \cup {"status", "imit_expert_ratio", "exp_command", "run_name"}
verbosity_2 == verbosity_1 \cup {"status", "imit_expert_ratio", "exp_command",
                                 "run_name"}
table_verbosity_mapping == <<verbosity_0, verbosity_1, verbosity_2>>

IsSubsetKey(k, keys_subset) == k \in keys_subset

\* the same reading the tier one below the verbosity asked for
_get_table_entry_fns_subset_tier_below(verbosity) ==
    IF verbosity >= Len(table_verbosity_mapping) THEN table_entry_fns
    ELSE LET keys_subset == table_verbosity_mapping[IF verbosity = 0 THEN 1
                                                    ELSE verbosity]
         IN  SelectSeq(table_entry_fns, LAMBDA k : IsSubsetKey(k, keys_subset))

\* the keys of the OrderedDict returned, in its order (table_verbosity >= 0)
_get_table_entry_fns_subset(verbosity) ==
    IF verbosity >= Len(table_verbosity_mapping) THEN table_entry_fns
    ELSE LET keys_subset == table_verbosity_mapping[verbosity + 1] IN
         SelectSeq(table_entry_fns, LAMBDA k : IsSubsetKey(k, keys_subset))

(***************************************************************************)
(* _gather_sacred_dicts                                                    *)
(***************************************************************************)
\* SacredDicts.load_from_dir(sacred_dir): the directory's two documents parsed,
\* or json.JSONDecodeError when one of them is malformed.  A directory is
\* [valid_json, config, run]; its path is its place in source_dirs.
load_from_dir(sacred_dir, dir) ==
    IF dir.valid_json
    THEN [t |-> "SacredDicts", sacred_dir |-> sacred_dir,
          config |-> dir.config, run |-> dir.run]
    ELSE Raise("JSONDecodeError")

\* lambda sd: get(sd.run, "experiment.name") == run_name
match_run_name(s, name) ==
    dict_get_nested(s.run, <<"experiment", "name">>) = name

\* lambda sd: get(sd.config, "env_name") == env_name
match_env_name(s, name) == dict_get_nested(s.config, <<"env_name">>) = name

\* the same asking for a status to be there
not_failed_with_status(s) ==
    /\ dict_get_nested(s.run, <<"status">>) # None
    /\ dict_get_nested(s.run, <<"status">>) # StrV(FAILED)

\* lambda sd: get(sd.run, "status") != "FAILED"
not_failed(s) == dict_get_nested(s.run, <<"status">>) # StrV(FAILED)

\* the same with the environment filter left out when the run-name filter ran
filter_dicts_elif(dicts, name, env, skip) ==
    LET by_run == IF name # None
                  THEN SelectSeq(dicts, LAMBDA s : match_run_name(s, name))
                  ELSE dicts
        by_env == IF name = None /\ env # None
                  THEN SelectSeq(by_run, LAMBDA s : match_env_name(s, env))
                  ELSE by_run
    IN  IF skip THEN SelectSeq(by_env, not_failed) ELSE by_env

\* the three filters applied one after the other, and list()
filter_dicts(dicts, name, env, skip) ==
    LET by_run == IF name # None
                  THEN SelectSeq(dicts, LAMBDA s : match_run_name(s, name))
                  ELSE dicts
        by_env == IF env # None
                  THEN SelectSeq(by_run, LAMBDA s : match_env_name(s, env))
                  ELSE by_run
    IN  IF skip THEN SelectSeq(by_env, not_failed) ELSE by_env

(***************************************************************************)
(* The rows of the table and their order                                   *)
(***************************************************************************)
RECURSIVE make_row(_, _)
\* the OrderedDict row of one record, [t |-> "row", cells |-> a sequence of
\* [k, v]], or the exception the first raising column function raised
make_row(cols, s) ==
    IF cols = <<>> THEN [t |-> "row", cells |-> <<>>]
    ELSE LET v == make_entry_fn(Head(cols), s) IN
         IF IsRaise(v) THEN v
         ELSE LET rest == make_row(Tail(cols), s) IN
              IF IsRaise(rest) THEN rest
              ELSE [t |-> "row",
                    cells |-> <<[k |-> Head(cols), v |-> v]>> \o rest.cells]

Columns(frame) == IF frame = <<>> THEN <<>>
                  ELSE [i \in 1..Len(frame[1]) |-> frame[1][i].k]
HasColumn(frame, col) == \E i \in 1..Len(Columns(frame)) : Columns(frame)[i] = col
Cell(row, col) == row[CHOOSE i \in 1..Len(row) : row[i].k = col].v

\* a sorts strictly before b in one key column: strings in Python's order,
\* missing values (None) last
CellLess(a, b) == a # None /\ (b = None \/ StrLess(a.s, b.s))

RECURSIVE RowLess(_, _, _)
\* r1 sorts strictly before r2 by the columns by, the first column first
RowLess(r1, r2, by) ==
    /\ by # <<>>
    /\ \/ CellLess(Cell(r1, Head(by)), Cell(r2, Head(by)))
       \/ /\ Cell(r1, Head(by)) = Cell(r2, Head(by))
          /\ RowLess(r1, r2, Tail(by))

\* r placed after the rows of the sorted frame that do not sort after it
InsertRow(frame, r, by) ==
    LET n == Cardinality({i \in 1..Len(frame) : ~RowLess(r, frame[i], by)})
    IN  SubSeq(frame, 1, n) \o <<r>> \o SubSeq(frame, n + 1, Len(frame))

RECURSIVE SortedRows(_, _)
SortedRows(frame, by) ==
    IF frame = <<>> THEN <<>>
    ELSE InsertRow(SortedRows(SubSeq(frame, 1, Len(frame) - 1), by),
                   frame[Len(frame)], by)

\* DataFrame.sort_values(by=...): KeyError for a column the frame does not
\* have, else the rows in ascending order of the columns, ties in their order
sort_values(frame, by) ==
    IF \E i \in 1..Len(by) : ~HasColumn(frame, by[i]) THEN Raise("KeyError")
    ELSE [t |-> "frame", rows |-> SortedRows(frame, by)]

\* the same without the sort
sorted_frame_unsorted(frame) == [t |-> "frame", rows |-> frame]

\* df = pd.DataFrame(rows); if len(df) > 0: df.sort_values(by=["algo", "env_name"])
sorted_frame(frame) ==
    IF Len(frame) > 0 THEN sort_values(frame, <<"algo", "env_name">>)
    ELSE [t |-> "frame", rows |-> frame]

(***************************************************************************)
(* The inputs the model draws from                                         *)
(***************************************************************************)
MaxDirs == 3        \* directories found by one scan
MaxLoaded == 2      \* records handed to the filters alone
MaxVerbosity == 4   \* largest table_verbosity tried
MaxCalls == 2       \* calls of one column function on one record

Absent == [t |-> "absent"]   \* a key the document does not have
\* the dict of the keys of f that are not Absent
MkDict(f) == DictV([k \in {j \in DOMAIN f : f[j] # Absent} |-> f[k]])

Stats(mean, std, n) == MkDict([return_mean |-> mean, return_std |-> std, n_traj |-> n])
MonitorStats(mean, std, n) ==
    MkDict([monitor_return_mean |-> mean, monitor_return_std |-> std, n_traj |-> n])
Result(expert, imit) == MkDict([expert_stats |-> expert, imit_stats |-> imit])
Experiment(name) == MkDict([name |-> name])
RunDoc(command, status, experiment, result) ==
    MkDict([command |-> command, status |-> status, experiment |-> experiment,
            result |-> result])
ConfigDoc(algorithm, env, demos) ==
    MkDict([algorithm |-> algorithm, env_name |-> env, n_expert_demos |-> demos])
Dir(config, run) == [valid_json |-> TRUE, config |-> config, run |-> run]
MalformedDir == [valid_json |-> FALSE, config |-> DictV(<<>>), run |-> DictV(<<>>)]

COMPLETED == StrV(<<"C","O","M","P","L","E","T","E","D">>)
name_a == StrV(<<"a">>)
name_b == StrV(<<"b">>)
env_cart == StrV(<<"c","a","r","t">>)
env_ant == StrV(<<"A","n","t">>)
gail == StrV(<<"g","a","i","l">>)
airl == StrV(<<"a","i","r","l">>)
foo == StrV(<<"f","o","o">>)

SeqsUpTo(S, n) == UNION {[1..k -> S] : k \in 0..n}

\* run directories as the train scripts and a broken run leave them
SampleDirs ==
    { MalformedDir,
      \* a finished adversarial run: expert 10 +- 1.5, imitation 7 +- 0.5
      Dir(ConfigDoc(gail, env_cart, IntV(5)),
          RunDoc(StrV(train_adversarial), COMPLETED, Experiment(name_a),
                 Result(Stats(FloatV(10, 0), FloatV(15, -1), IntV(10)),
                        MonitorStats(FloatV(7, 0), FloatV(5, -1), IntV(10))))),
      \* a failed behavioural-cloning run: expert statistics only
      Dir(ConfigDoc(Absent, env_ant, IntV(5)),
          RunDoc(StrV(train_bc), StrV(FAILED), Experiment(name_a),
                 Result(Stats(FloatV(5123456, -6), FloatV(987654, -6), IntV(10)),
                        Absent))),
      \* a run that wrote next to nothing
      Dir(ConfigDoc(Absent, Absent, Absent),
          RunDoc(StrV(train_adversarial), Absent, Absent, Absent)),
      \* an expert whose mean return is zero, under a command not known
      Dir(ConfigDoc(Absent, env_cart, IntV(1)),
          RunDoc(foo, COMPLETED, Experiment(name_b),
                 Result(Stats(FloatV(0, 0), FloatV(0, 0), IntV(10)),
                        MonitorStats(FloatV(7, 0), FloatV(5, -1), IntV(10))))),
      \* imitation statistics without their standard deviation
      Dir(ConfigDoc(Absent, env_ant, Absent),
          RunDoc(StrV(train_dagger), COMPLETED, Experiment(name_b),
                 Result(Absent, MonitorStats(FloatV(-15025, -2), Absent, IntV(10))))) }

\* every combination of the three fields the filters read
FilterDirs ==
    { Dir(ConfigDoc(Absent, env, Absent),
          RunDoc(StrV(train_bc), status, Experiment(name), Absent)) :
        env \in {Absent, env_cart, env_ant},
        status \in {Absent, StrV(FAILED), COMPLETED},
        name \in {Absent, name_a, name_b} }

RunNames == {None, name_a}
EnvNames == {None, env_cart}

\* every shape of the two statistics documents _return_summaries reads
ExpertStatsDocs ==
    {Absent} \cup
    { Stats(mean, std, n) :
        mean \in {Absent, FloatV(10, 0), FloatV(0, 0), FloatV(5123456, -6), IntV(2)},
        std \in {Absent, FloatV(15, -1), FloatV(987654, -6)},
        n \in {Absent, IntV(10)} }
ImitStatsDocs ==
    {Absent} \cup
    { MonitorStats(mean, std, n) :
        mean \in {Absent, FloatV(7, 0), FloatV(-15025, -2)},
        std \in {Absent, FloatV(5, -1)},
        n \in {Absent, IntV(10)} }
SummaryRecords ==
    { load_from_dir(1, Dir(ConfigDoc(gail, env_cart, IntV(5)),
                           RunDoc(StrV(train_adversarial), COMPLETED,
                                  Experiment(name_a), Result(expert, imit)))) :
        expert \in ExpertStatsDocs, imit \in ImitStatsDocs }
    \cup { load_from_dir(1, Dir(ConfigDoc(gail, env_cart, IntV(5)),
                                RunDoc(StrV(train_adversarial), COMPLETED,
                                       Experiment(name_a), Absent))) }

\* every command with every algorithm field
AlgoRecords ==
    { load_from_dir(1, Dir(ConfigDoc(algorithm, env, demos),
                           RunDoc(command, COMPLETED, Experiment(name_a), Absent))) :
        command \in {Absent, StrV(train_adversarial), StrV(train_bc),
                     StrV(train_dagger), foo, StrV(str_upper(train_bc)),
                     StrV(<<>>)},
        algorithm \in {Absent, gail, airl, StrV(<<"G","a","i","l","2">>)},
        env \in {Absent, env_cart},
        demos \in {Absent, IntV(5)} }

(***************************************************************************)
(* The commands, step by step                                              *)
(***************************************************************************)
NoException == "none"

\* analyze_imitation, line 264: table_entry_fns_subset, with the assertion of
\* _get_table_entry_fns_subset
GetSubset ==
    /\ pc = "subset"
    /\ IF table_verbosity >= 0
       THEN /\ table_entry_fns_subset' = _get_table_entry_fns_subset(table_verbosity)
            /\ pc' = "load"
            /\ exc' = exc
       ELSE /\ exc' = "AssertionError"
            /\ pc' = "aborted"
            /\ table_entry_fns_subset' = table_entry_fns_subset
    /\ UNCHANGED <<source_dirs, run_name, env_name, skip_failed_runs,
                   table_verbosity, n_scanned, sacred_dicts, warned, rows, df,
                   sd, ret>>

\* the same with the malformed directory passed over in silence
LoadFromDir_silent ==
    /\ pc = "load"
    /\ n_scanned < Len(source_dirs)
    /\ LET sacred_dir == n_scanned + 1
           loaded == load_from_dir(sacred_dir, source_dirs[sacred_dir])
       IN  IF IsRaise(loaded)
           THEN sacred_dicts' = sacred_dicts
           ELSE sacred_dicts' = Append(sacred_dicts, loaded)
    /\ n_scanned' = n_scanned + 1
    /\ UNCHANGED <<pc, source_dirs, run_name, env_name, skip_failed_runs,
                   table_verbosity, table_entry_fns_subset, rows, df, exc, sd,
                   ret, warned>>

\* _gather_sacred_dicts, one turn of the loop over sacred_dirs
LoadFromDir ==
    /\ pc = "load"
    /\ n_scanned < Len(source_dirs)
    /\ LET sacred_dir == n_scanned + 1
           loaded == load_from_dir(sacred_dir, source_dirs[sacred_dir])
       IN  IF IsRaise(loaded)
           THEN /\ warned' = Append(warned, sacred_dir)
                /\ sacred_dicts' = sacred_dicts
           ELSE /\ sacred_dicts' = Append(sacred_dicts, loaded)
                /\ warned' = warned
    /\ n_scanned' = n_scanned + 1
    /\ UNCHANGED <<pc, source_dirs, run_name, env_name, skip_failed_runs,
                   table_verbosity, table_entry_fns_subset, rows, df, exc, sd, ret>>

\* _gather_sacred_dicts after the loop: the filters, and the return
FilterDicts ==
    /\ pc = "load"
    /\ n_scanned = Len(source_dirs)
    /\ sacred_dicts' = filter_dicts(sacred_dicts, run_name, env_name, skip_failed_runs)
    /\ pc' = "rows"
    /\ UNCHANGED <<source_dirs, run_name, env_name, skip_failed_runs,
                   table_verbosity, n_scanned, warned, table_entry_fns_subset,
                   rows, df, exc, sd, ret>>

\* analyze_imitation, one turn of the loop over the gathered records
BuildRow ==
    /\ pc = "rows"
    /\ Len(rows) < Len(sacred_dicts)
    /\ LET row == make_row(table_entry_fns_subset, sacred_dicts[Len(rows) + 1])
       IN  IF IsRaise(row)
           THEN /\ exc' = row.exc
                /\ pc' = "aborted"
                /\ rows' = rows
           ELSE /\ rows' = Append(rows, row.cells)
                /\ pc' = pc
                /\ exc' = exc
    /\ UNCHANGED <<source_dirs, run_name, env_name, skip_failed_runs,
                   table_verbosity, n_scanned, sacred_dicts, warned,
                   table_entry_fns_subset, df, sd, ret>>

\* analyze_imitation after the loop: the DataFrame, sorted, and the return
SortTable ==
    /\ pc = "rows"
    /\ Len(rows) = Len(sacred_dicts)
    /\ LET frame == sorted_frame(rows)
       IN  IF IsRaise(frame)
           THEN /\ exc' = frame.exc
                /\ pc' = "aborted"
                /\ df' = df
           ELSE /\ df' = frame.rows
                /\ pc' = "done"
                /\ exc' = exc
    /\ UNCHANGED <<source_dirs, run_name, env_name, skip_failed_runs,
                   table_verbosity, n_scanned, sacred_dicts, warned,
                   table_entry_fns_subset, rows, sd, ret>>

\* _get_algo_name(sd), called on its own
CallGetAlgoName ==
    /\ pc = "_get_algo_name"
    /\ Len(ret) < MaxCalls
    /\ ret' = Append(ret, _get_algo_name(sd))
    /\ UNCHANGED <<pc, source_dirs, run_name, env_name, skip_failed_runs,
                   table_verbosity, n_scanned, sacred_dicts, warned,
                   table_entry_fns_subset, rows, df, exc, sd>>

\* _return_summaries(sd), called on its own
CallReturnSummaries ==
    /\ pc = "_return_summaries"
    /\ Len(ret) < MaxCalls
    /\ ret' = Append(ret, _return_summaries(sd))
    /\ UNCHANGED <<pc, source_dirs, run_name, env_name, skip_failed_runs,
                   table_verbosity, n_scanned, sacred_dicts, warned,
                   table_entry_fns_subset, rows, df, exc, sd>>

\* analyze_imitation on the directories of one scan
Init ==
    /\ pc = "subset"
    /\ source_dirs \in SeqsUpTo(SampleDirs, MaxDirs)
    /\ run_name \in RunNames
    /\ env_name \in EnvNames
    /\ skip_failed_runs \in BOOLEAN
    /\ table_verbosity \in (-1)..MaxVerbosity
    /\ n_scanned = 0
    /\ sacred_dicts = <<>>
    /\ warned = <<>>
    /\ table_entry_fns_subset = <<>>
    /\ rows = <<>>
    /\ df = <<>>
    /\ exc = NoException
    /\ sd = None
    /\ ret = <<>>

Next == GetSubset \/ LoadFromDir \/ FilterDicts \/ BuildRow \/ SortTable

Spec == Init /\ [][Next]_vars

\* _gather_sacred_dicts when its loop has loaded every directory
InitFilter ==
    /\ pc = "load"
    /\ source_dirs \in SeqsUpTo(FilterDirs, MaxLoaded)
    /\ run_name \in RunNames
    /\ env_name \in EnvNames
    /\ skip_failed_runs \in BOOLEAN
    /\ table_verbosity = 0
    /\ n_scanned = Len(source_dirs)
    /\ sacred_dicts = [i \in 1..Len(source_dirs) |-> load_from_dir(i, source_dirs[i])]
    /\ warned = <<>>
    /\ table_entry_fns_subset = _get_table_entry_fns_subset(0)
    /\ rows = <<>>
    /\ df = <<>>
    /\ exc = NoException
    /\ sd = None
    /\ ret = <<>>

NextFilter == FilterDicts

SpecFilter == InitFilter /\ [][NextFilter]_vars

InitColumn(name, records) ==
    /\ pc = name
    /\ sd \in records
    /\ ret = <<>>
    /\ source_dirs = <<>>
    /\ run_name = None
    /\ env_name = None
    /\ skip_failed_runs = FALSE
    /\ table_verbosity = 0
    /\ n_scanned = 0
    /\ sacred_dicts = <<>>
    /\ warned = <<>>
    /\ table_entry_fns_subset = <<>>
    /\ rows = <<>>
    /\ df = <<>>
    /\ exc = NoException

InitAlgo == InitColumn("_get_algo_name", AlgoRecords)
NextAlgo == CallGetAlgoName
SpecAlgo == InitAlgo /\ [][NextAlgo]_vars

InitSummaries == InitColumn("_return_summaries", SummaryRecords)
NextSummaries == CallReturnSummaries
SpecSummaries == InitSummaries /\ [][NextSummaries]_vars

(***************************************************************************)
(* Properties                                                              *)
(***************************************************************************)
Range(seq) == {seq[i] : i \in 1..Len(seq)}
StrictlyIncreasing(seq) == \A i \in 1..(Len(seq) - 1) : seq[i] < seq[i + 1]
DirsOf(dicts) == [j \in 1..Len(dicts) |-> dicts[j].sacred_dir]
HasKey(d, k) == d.t = "dict" /\ k \in DOMAIN d.m
\* the record is the pair of documents of the directory it names
IsRecordOf(s, dirs) ==
    /\ s.sacred_dir \in 1..Len(dirs)
    /\ dirs[s.sacred_dir].valid_json
    /\ s.config = dirs[s.sacred_dir].config
    /\ s.run = dirs[s.sacred_dir].run
Gathered == pc \in {"rows", "done"}   \* _gather_sacred_dicts has returned

NamePresent(d) == HasKey(d.run, "experiment") /\ HasKey(d.run.m["experiment"], "name")
EnvPresent(d) == HasKey(d.config, "env_name")
StatusPresent(d) == HasKey(d.run, "status")
NameIs(d, v) == NamePresent(d) /\ d.run.m["experiment"].m["name"] = v
EnvIs(d, v) == EnvPresent(d) /\ d.config.m["env_name"] = v
StatusIs(d, v) == StatusPresent(d) /\ d.run.m["status"] = v

\* one malformed directory, one FAILED run and one valid run, in any order,
\* and skip_failed_runs the only filter
EndToEndScan ==
    /\ Len(source_dirs) = 3
    /\ run_name = None /\ env_name = None /\ skip_failed_runs
    /\ \E i, j, k \in 1..3 :
        /\ {i, j, k} = 1..3
        /\ ~source_dirs[i].valid_json
        /\ source_dirs[j].valid_json /\ StatusIs(source_dirs[j], StrV(FAILED))
        /\ source_dirs[k].valid_json /\ ~StatusIs(source_dirs[k], StrV(FAILED))

\* C1: the load loop never aborts: at every turn the directories that parsed
\* are in sacred_dicts, each once and in discovery order, and the ones that
\* did not parse are left out with exactly one warning each; a scan of one
\* malformed, one FAILED and one valid directory with skip_failed_runs returns
\* the valid record alone, after exactly one warning.
C1_MalformedDirsSkipped ==
    /\ pc = "load" =>
        /\ exc = NoException
        /\ Range(DirsOf(sacred_dicts)) =
               {i \in 1..n_scanned : source_dirs[i].valid_json}
        /\ StrictlyIncreasing(DirsOf(sacred_dicts))
        /\ \A j \in 1..Len(sacred_dicts) : IsRecordOf(sacred_dicts[j], source_dirs)
        /\ Range(warned) = {i \in 1..n_scanned : ~source_dirs[i].valid_json}
        /\ StrictlyIncreasing(warned)
    /\ (Gathered /\ EndToEndScan) =>
        /\ Len(sacred_dicts) = 1
        /\ IsRecordOf(sacred_dicts[1], source_dirs)
        /\ ~StatusIs(sacred_dicts[1], StrV(FAILED))
        /\ Len(warned) = 1
        /\ ~source_dirs[warned[1]].valid_json

C1_Witness ==
    /\ pc = "rows" /\ rows = <<>>
    /\ EndToEndScan
    /\ ~source_dirs[2].valid_json
    /\ warned = <<2>>
    /\ Len(sacred_dicts) = 1

\* what the three filters are to keep
Keeps(d) ==
    /\ run_name # None => NameIs(d, run_name)
    /\ env_name # None => EnvIs(d, env_name)
    /\ skip_failed_runs => ~StatusIs(d, StrV(FAILED))

\* C2: the records returned are records that were loaded, in their order and
\* each at most once, and they are exactly the loaded records that satisfy
\* every enabled predicate.
C2_FilterIsConjunction ==
    Gathered =>
        /\ StrictlyIncreasing(DirsOf(sacred_dicts))
        /\ \A j \in 1..Len(sacred_dicts) : IsRecordOf(sacred_dicts[j], source_dirs)
        /\ Range(DirsOf(sacred_dicts)) =
               {i \in 1..Len(source_dirs) :
                    source_dirs[i].valid_json /\ Keeps(source_dirs[i])}

C2_Witness ==
    /\ pc = "rows"
    /\ run_name # None /\ env_name # None /\ skip_failed_runs
    /\ Len(source_dirs) = 2
    /\ StatusIs(source_dirs[1], StrV(FAILED))
    /\ DirsOf(sacred_dicts) = <<2>>

\* C3 as claimed: with a predicate enabled, no record lacking the field that
\* predicate reads is returned.
C3_MissingFieldExcluded ==
    Gathered =>
        \A j \in 1..Len(sacred_dicts) :
            /\ run_name # None => NamePresent(sacred_dicts[j])
            /\ env_name # None => EnvPresent(sacred_dicts[j])
            /\ skip_failed_runs => StatusPresent(sacred_dicts[j])

\* C3: with the run-name or the environment-name predicate enabled, no record
\* lacking that field is returned; a record without a status is never dropped
\* by the failure-status predicate: it is returned exactly when the other two
\* predicates keep it; and no exception is raised.
C3_MissingFieldAmended ==
    Gathered =>
        /\ exc = NoException
        /\ \A j \in 1..Len(sacred_dicts) :
            /\ run_name # None => NamePresent(sacred_dicts[j])
            /\ env_name # None => EnvPresent(sacred_dicts[j])
        /\ \A i \in 1..Len(source_dirs) :
            (source_dirs[i].valid_json /\ ~StatusPresent(source_dirs[i])) =>
                (i \in Range(DirsOf(sacred_dicts)) <=>
                    /\ run_name # None => NameIs(source_dirs[i], run_name)
                    /\ env_name # None => EnvIs(source_dirs[i], env_name))

C3_Witness ==
    /\ pc = "rows"
    /\ skip_failed_runs /\ run_name # None /\ env_name # None
    /\ Len(source_dirs) = 2
    /\ ~NamePresent(source_dirs[1])
    /\ ~StatusPresent(source_dirs[2])
    /\ DirsOf(sacred_dicts) = <<2>>

SubsetChosen == pc \in {"load", "rows", "done"}   \* line 264 has run
\* where the registry has the column (its names are distinct)
RegistryPlace(col) ==
    CHOOSE i \in 1..Len(table_entry_fns) : table_entry_fns[i] = col

\* C4: the columns selected are columns of the registry, in registry order and
\* without duplicates: below verbosity 3 exactly those of that tier's set, from
\* 3 on the whole registry, and at verbosity 0 algo, env_name,
\* expert_return_summary, imit_return_summary.
C4_SubsetInRegistryOrder ==
    SubsetChosen =>
        /\ table_verbosity >= 0
        /\ Range(table_entry_fns_subset) \subseteq Range(table_entry_fns)
        /\ StrictlyIncreasing([i \in 1..Len(table_entry_fns_subset) |->
                                   RegistryPlace(table_entry_fns_subset[i])])
        /\ Len(table_verbosity_mapping) = 3
        /\ table_verbosity < 3 =>
               Range(table_entry_fns_subset) =
                   Range(table_entry_fns)
                       \cap table_verbosity_mapping[table_verbosity + 1]
        /\ table_verbosity >= 3 => table_entry_fns_subset = table_entry_fns
        /\ table_verbosity = 0 =>
               table_entry_fns_subset =
                   <<"algo", "env_name", "expert_return_summary",
                     "imit_return_summary">>

C4_Witness ==
    /\ pc = "load"
    /\ table_verbosity = 4
    /\ Len(table_entry_fns_subset) = 9

\* C5: a lower verbosity never selects a column the chosen one does not, every
\* name of every tier is a column of the registry, and the last tier selects
\* the whole registry.
C5_TiersMonotonic ==
    /\ \A k \in 1..Len(table_verbosity_mapping) :
           table_verbosity_mapping[k] \subseteq Range(table_entry_fns)
    /\ SubsetChosen =>
        /\ \A k \in 0..(table_verbosity - 1) :
               Range(_get_table_entry_fns_subset(k))
                   \subseteq Range(table_entry_fns_subset)
        /\ table_verbosity = Len(table_verbosity_mapping) - 1 =>
               table_entry_fns_subset = table_entry_fns

C5_Witness ==
    /\ pc = "load"
    /\ table_verbosity = 2
    /\ Range(_get_table_entry_fns_subset(1)) # Range(table_entry_fns_subset)
    /\ Range(_get_table_entry_fns_subset(0)) # Range(_get_table_entry_fns_subset(1))

IsLower(c) == \E i \in 1..Len(Lower) : Lower[i] = c
\* t is s with every lower-case letter replaced by its capital
IsUpperCased(t, s) ==
    /\ Len(t) = Len(s)
    /\ \A i \in 1..Len(s) :
        /\ ~IsLower(t[i])
        /\ IsLower(s[i]) => \E j \in 1..Len(Lower) : Lower[j] = s[i] /\ Upper[j] = t[i]
        /\ ~IsLower(s[i]) => t[i] = s[i]
\* the text of the command field, None written out when there is none
KindText(d) ==
    IF HasKey(d.run, "command") THEN d.run.m["command"].s ELSE <<"N","o","n","e">>

\* C6: _get_algo_name always returns, and returns: for train_adversarial the
\* algorithm field upper-cased, None when there is none; BC for train_bc and
\* DAgger for train_dagger whatever the config holds; for any other command,
\* a missing one included, a string starting ?? that contains the command.
C6_AlgoNameTotal ==
    (pc = "_get_algo_name") =>
        \A j \in 1..Len(ret) :
            /\ ret[j].t \in {"str", "none"}
            /\ CASE KindText(sd) = train_adversarial ->
                        IF HasKey(sd.config, "algorithm")
                        THEN /\ ret[j].t = "str"
                             /\ IsUpperCased(ret[j].s, sd.config.m["algorithm"].s)
                        ELSE ret[j] = None
                 [] KindText(sd) = train_bc -> ret[j] = StrV(<<"B","C">>)
                 [] KindText(sd) = train_dagger ->
                        ret[j] = StrV(<<"D","A","g","g","e","r">>)
                 [] OTHER ->
                        /\ ret[j].t = "str"
                        /\ SubSeq(ret[j].s, 1, 2) = <<"?","?">>
                        /\ Contains(ret[j].s, KindText(sd))
                        /\ Len(ret[j].s) > Len(KindText(sd))

C6_Witness ==
    /\ pc = "_get_algo_name"
    /\ Len(ret) = 1
    /\ KindText(sd) = train_adversarial
    /\ HasKey(sd.config, "algorithm")
    /\ sd.config.m["algorithm"] = gail
    /\ ret[1] = StrV(<<"G","A","I","L">>)

ExpertStatsPresent(d) ==
    HasKey(d.run, "result") /\ HasKey(d.run.m["result"], "expert_stats")
ImitStatsPresent(d) ==
    HasKey(d.run, "result") /\ HasKey(d.run.m["result"], "imit_stats")

\* C7: whenever _return_summaries returns, expert_return_summary is None
\* exactly when result.expert_stats is absent, imit_return_summary is None
\* exactly when result.imit_stats is absent, imit_expert_ratio is None when
\* either is absent and is the imitation mean over the (non-zero) expert mean
\* when both are there; and a second call on the record returns the same.
C7_SummariesFollowPresence ==
    (pc = "_return_summaries") =>
        /\ \A j \in 1..Len(ret) :
            ~IsRaise(ret[j]) =>
                /\ ret[j].m.expert_return_summary = None <=> ~ExpertStatsPresent(sd)
                /\ ret[j].m.imit_return_summary = None <=> ~ImitStatsPresent(sd)
                /\ ret[j].m.expert_return_summary # None =>
                       ret[j].m.expert_return_summary.t = "str"
                /\ ret[j].m.imit_return_summary # None =>
                       ret[j].m.imit_return_summary.t = "str"
                /\ ~(ExpertStatsPresent(sd) /\ ImitStatsPresent(sd)) =>
                       ret[j].m.imit_expert_ratio = None
                /\ (ExpertStatsPresent(sd) /\ ImitStatsPresent(sd)) =>
                       /\ ret[j].m.imit_expert_ratio.t = "float"
                       /\ ret[j].m.imit_expert_ratio.num =
                              sd.run.m["result"].m["imit_stats"].m["monitor_return_mean"]
                       /\ ret[j].m.imit_expert_ratio.den =
                              sd.run.m["result"].m["expert_stats"].m["return_mean"]
                       /\ ~IsZero(ret[j].m.imit_expert_ratio.den)
        /\ \A j, k \in 1..Len(ret) : ret[j] = ret[k]

\* expert mean 10, imitation mean 7: the ratio 7 / 10
C7_Witness ==
    /\ pc = "_return_summaries"
    /\ Len(ret) = 2
    /\ ~IsRaise(ret[2])
    /\ ret[2].m.imit_expert_ratio = QuotV(FloatV(7, 0), FloatV(10, 0))
    /\ ret[2].m.expert_return_summary # None
    /\ ret[2].m.imit_return_summary # None

\* C8 as claimed: no column function's exception ends analyze_imitation; a
\* table is how the command ends.
C8_TableNeverAborts ==
    ~(pc = "aborted" /\ exc \in {"KeyError", "ZeroDivisionError"})

\* how often the row occurs in the frame
Occurrences(frame, r) == Cardinality({i \in 1..Len(frame) : frame[i] = r})
RowKeys(row) == [i \in 1..Len(row) |-> row[i].k]

C10_ThreeSignificantDigits ==
    (/\ pc = "_return_summaries"
     /\ ExpertStatsPresent(sd)
     /\ sd.run.m["result"].m["expert_stats"] =
            Stats(FloatV(5123456, -6), FloatV(987654, -6), IntV(10)))
    => \A j \in 1..Len(ret) :
           ~IsRaise(ret[j]) =>
               ret[j].m.expert_return_summary =
                   StrV(<<"5",".","1","2"," ","±"," ","0",".","9","8","8",
                          " ","(","n","=","1","0",")">>)

====
